---- MODULE Spec2Model ----
(***************************************************************************)
(* Model of the credit-metered text-to-speech gateway:                     *)
(*   store/db.py   Database   (the account ledger, one asyncio.Lock)       *)
(*   core/core.py  Semaphores (the per-user semaphore registry)            *)
(*   core/core.py  App        (text_to_speech, the metering gateway)       *)
(* Every request is one asyncio task running App.text_to_speech.  A task   *)
(* may be descheduled wherever the code awaits a lock, a semaphore, the    *)
(* sleep or the external call; the bodies of the lock-protected sections   *)
(* are modelled statement by statement, so that the locks, and not the     *)
(* granularity of the model, are what makes them atomic.                    *)
(***************************************************************************)
EXTENDS Integers, Sequences, FiniteSets, TLC

\* ------------------------------------------------------------------ bounds
\* Number of concurrent text_to_speech calls in the general specification.
NumRequests == 3
\* Length of the longest text whose cost is computed in the specification of
\* the cost function.
MaxTextLen == 6
\* Number of concurrent calls in the specification of mixed authenticate and
\* text_to_speech calls.
MaxCalls == 2

\* --------------------------------------------------------------- constants
\* asyncio.Semaphore(3)
Capacity == 3
\* response.status_code != 200
StatusOk == 200
\* a non-success status of the external service
StatusError == 500
\* tasks = [send_request() for _ in range(6)]
TestRequests == 6

\* Database.__init__: the seeded accounts.
SeedUsers ==
  [u \in {"robert", "karel", "oliver", "blanka"} |->
     [credits  |-> CASE u = "robert" -> 69
                     [] u = "karel"  -> 1
                     [] u = "oliver" -> 20000
                     [] OTHER        -> 0,
      reserved |-> 0,
      password |-> CASE u = "robert" -> "robertHeslo"
                     [] u = "karel"  -> "karlovHeslo"
                     [] u = "oliver" -> "oliverHeslo"
                     [] OTHER        -> "blankaHeslo"]]

\* ------------------------------------------------------------ tokenization
\* A text is a sequence of characters; "a" stands for a word character,
\* " " for whitespace and "!" for a character that is neither.
IsWord(c) == c = "a"
IsSpace(c) == c = " "

\* The character at 0-based offset i is a word character (False outside).
WordAt(t, i) == i >= 0 /\ i < Len(t) /\ IsWord(t[i + 1])

\* A pattern without the two \b (plain \S+): every offset may start and end
\* a match.
BoundaryAnywhere(t, p) == TRUE

\* \b at offset p: exactly one of the characters around p is a word character.
Boundary(t, p) == WordAt(t, p - 1) # WordAt(t, p)

\* \S+ from offset i to offset j (exclusive), j > i.
NonSpaceRun(t, i, j) == \A k \in (i + 1)..j : ~IsSpace(t[k])

\* End offsets of the matches of \b\S+\b that start at offset i.
MatchEnds(t, i) ==
  IF Boundary(t, i)
  THEN {j \in (i + 1)..Len(t) : NonSpaceRun(t, i, j) /\ Boundary(t, j)}
  ELSE {}

\* \S+ is greedy: the match taken is the longest one.
MaxOf(S) == CHOOSE x \in S : \A y \in S : y <= x

\* len(re.findall(pattern, text)), scanning from offset pos.
RECURSIVE FindAllFrom(_, _)
FindAllFrom(t, pos) ==
  IF pos >= Len(t) THEN 0
  ELSE IF MatchEnds(t, pos) # {}
       THEN 1 + FindAllFrom(t, MaxOf(MatchEnds(t, pos)))
       ELSE FindAllFrom(t, pos + 1)

\* credits = len(re.findall(self.re_pattern, text))
CountCredits(t) == FindAllFrom(t, 0)

\* ---------------------------------------------------------------- callers
\* The calls made: (username, text) pairs.  Two seeded accounts with the
\* texts "a" (one token) and "a a" (two tokens), and one name the ledger does
\* not know.
CallKinds ==
  << <<"karel", <<"a">>>>,   <<"karel", <<"a", " ", "a">>>>,
     <<"robert", <<"a">>>>,  <<"robert", <<"a", " ", "a">>>>,
     <<"mallory", <<"a", " ", "a">>>> >>

\* The workloads of n concurrent calls.  Tasks are interchangeable, so one
\* numbering of each multiset of calls is enough.
Workloads(n) ==
  {w \in [1..n -> 1..Len(CallKinds)] : \A i \in 1..(n - 1) : w[i] <= w[i + 1]}

\* ------------------------------------------------------------------- state
VARIABLES
  users,       \* Database.users: username -> [credits, reserved, password]
  dbLock,      \* Database.lock: 0 when free, else the task holding it
  semaphores,  \* Semaphores.semaphores: username -> <<name, k>>, the k-th
               \*   semaphore object created for name
  semLock,     \* Semaphores.lock: 0 when free, else the task holding it
  sems,        \* the asyncio.Semaphore objects created so far:
               \*   <<name, k>> -> [value, waiters]
  pc,          \* where each task (one text_to_speech call) stands
  username,    \* text_to_speech's argument
  text,        \* text_to_speech's argument
  semaphore,   \* the local "semaphore" of get / text_to_speech (<<>> = None)
  credits,     \* the local "credits" of text_to_speech
  response,    \* the status code of the external call's response (0 = none)
  result,      \* how the call ended: "" while running, "ok" or the exception
  log          \* history of the task's calls, for the properties

vars == <<users, dbLock, semaphores, semLock, sems, pc, username, text,
          semaphore, credits, response, result, log>>

Tasks == DOMAIN pc

\* What a task has done so far: permits taken and given back, the amounts of
\* its successful reserve, unreserve and pay calls, and the number of
\* external calls it started.
NoLog == [acquired |-> 0, released |-> 0, reserved |-> <<>>,
          unreserved |-> <<>>, paid |-> <<>>, invoked |-> 0]

\* The state after App(Database(), api_key), with the calls us[r], ts[r]
\* started as tasks that have not run yet.
Started(us, ts) ==
  /\ users = SeedUsers
  /\ dbLock = 0
  /\ semaphores = << >>
  /\ semLock = 0
  /\ sems = << >>
  /\ pc = [r \in DOMAIN us |-> "get"]
  /\ username = us
  /\ text = ts
  /\ semaphore = [r \in DOMAIN us |-> << >>]
  /\ credits = [r \in DOMAIN us |-> 0]
  /\ response = [r \in DOMAIN us |-> 0]
  /\ result = [r \in DOMAIN us |-> ""]
  /\ log = [r \in DOMAIN us |-> NoLog]

Init ==
  \E w \in Workloads(NumRequests) :
    Started([r \in 1..NumRequests |-> CallKinds[w[r]][1]],
            [r \in 1..NumRequests |-> CallKinds[w[r]][2]])

\* ------------------------------------------------------------ Semaphores.get
\* A get that does not take the registry lock.
GetUnlocked(r) ==
  /\ pc[r] = "get"
  /\ semLock' = r
  /\ pc' = [pc EXCEPT ![r] = "get_lookup"]
  /\ UNCHANGED <<users, dbLock, semaphores, sems, username, text, semaphore,
                 credits, response, result, log>>

\* async with self.lock
GetLock(r) ==
  /\ pc[r] = "get"
  /\ semLock = 0
  /\ semLock' = r
  /\ pc' = [pc EXCEPT ![r] = "get_lookup"]
  /\ UNCHANGED <<users, dbLock, semaphores, sems, username, text, semaphore,
                 credits, response, result, log>>

\* self.semaphores.get(name)
Lookup(name) == IF name \in DOMAIN semaphores THEN semaphores[name] ELSE << >>

\* semaphore = self.semaphores.get(name)
GetLookup(r) ==
  /\ pc[r] = "get_lookup"
  /\ semaphore' = [semaphore EXCEPT ![r] = Lookup(username[r])]
  /\ pc' = [pc EXCEPT ![r] = "get_create"]
  /\ UNCHANGED <<users, dbLock, semaphores, semLock, sems, username, text,
                 credits, response, result, log>>

\* if semaphore is None
MustCreate(r) == semaphore[r] = << >>

\* A semaphore created with one permit too many.
NewSemaphoreTooWide == [value |-> Capacity + 1, waiters |-> << >>]

\* asyncio.Semaphore(3)
NewSemaphore == [value |-> Capacity, waiters |-> << >>]

\* The semaphore objects created so far for name.
Created(name) == {s \in DOMAIN sems : s[1] = name}

\* if semaphore is None: create and record it; return semaphore (the lock is
\* released on leaving the with block).  The caller goes on to
\* "async with semaphore".
GetCreate(r) ==
  /\ pc[r] = "get_create"
  /\ IF MustCreate(r)
     THEN LET s == <<username[r], Cardinality(Created(username[r])) + 1>> IN
          /\ sems' = (s :> NewSemaphore) @@ sems
          /\ semaphores' = (username[r] :> s) @@ semaphores
          /\ semaphore' = [semaphore EXCEPT ![r] = s]
     ELSE UNCHANGED <<sems, semaphores, semaphore>>
  /\ semLock' = 0
  /\ pc' = [pc EXCEPT ![r] = "acquire"]
  /\ UNCHANGED <<users, dbLock, username, text, credits, response, result, log>>

\* --------------------------------------------------------- asyncio.Semaphore
\* Semaphore.locked(): no permit is free, or somebody is already waiting.
Locked(s) == sems[s].value = 0 \/ sems[s].waiters # << >>

\* async with semaphore: __aenter__ takes a permit, or queues the task.
Acquire(r) ==
  /\ pc[r] = "acquire"
  /\ LET s == semaphore[r] IN
     IF ~Locked(s)
     THEN /\ sems' = [sems EXCEPT ![s].value = @ - 1]
          /\ pc' = [pc EXCEPT ![r] = "sleep"]
          /\ log' = [log EXCEPT ![r].acquired = @ + 1]
     ELSE /\ sems' = [sems EXCEPT ![s].waiters = Append(@, r)]
          /\ pc' = [pc EXCEPT ![r] = "waiting"]
          /\ log' = log
  /\ UNCHANGED <<users, dbLock, semaphores, semLock, username, text,
                 semaphore, credits, response, result>>

\* A text_to_speech that gives the permit back only when it returns normally
\* (acquire and release written out, without "async with").
ReleasePermitOnReturnOnly(s, r) ==
  IF result[r] # "ok"
  THEN /\ sems' = sems
       /\ pc' = [pc EXCEPT ![r] = "done"]
       /\ log' = log
  ELSE IF sems[s].waiters # << >>
  THEN LET w == Head(sems[s].waiters) IN
       /\ sems' = [sems EXCEPT ![s].waiters = Tail(@)]
       /\ pc' = [pc EXCEPT ![r] = "done", ![w] = "sleep"]
       /\ log' = [log EXCEPT ![r].released = @ + 1, ![w].acquired = @ + 1]
  ELSE /\ sems' = [sems EXCEPT ![s].value = @ + 1]
       /\ pc' = [pc EXCEPT ![r] = "done"]
       /\ log' = [log EXCEPT ![r].released = @ + 1]

\* A release that only counts the permit up and wakes nobody.
ReleasePermitNoWake(s, r) ==
  /\ sems' = [sems EXCEPT ![s].value = @ + 1]
  /\ pc' = [pc EXCEPT ![r] = "done"]
  /\ log' = [log EXCEPT ![r].released = @ + 1]

\* Semaphore.release(): the permit goes to the first waiter if there is one,
\* else back to the counter.
ReleasePermit(s, r) ==
  IF sems[s].waiters # << >>
  THEN LET w == Head(sems[s].waiters) IN
       /\ sems' = [sems EXCEPT ![s].waiters = Tail(@)]
       /\ pc' = [pc EXCEPT ![r] = "done", ![w] = "sleep"]
       /\ log' = [log EXCEPT ![r].released = @ + 1, ![w].acquired = @ + 1]
  ELSE /\ sems' = [sems EXCEPT ![s].value = @ + 1]
       /\ pc' = [pc EXCEPT ![r] = "done"]
       /\ log' = [log EXCEPT ![r].released = @ + 1]

\* async with semaphore: __aexit__, on return and on every exception; the
\* call is over and its frame is gone.
Exit(r) ==
  /\ pc[r] = "exit"
  /\ ReleasePermit(semaphore[r], r)
  /\ semaphore' = [semaphore EXCEPT ![r] = << >>]
  /\ credits' = [credits EXCEPT ![r] = 0]
  /\ response' = [response EXCEPT ![r] = 0]
  /\ UNCHANGED <<users, dbLock, semaphores, semLock, username, text, result>>

\* The task is cancelled while it awaits asyncio.sleep, holding a permit and
\* before reserve: CancelledError leaves through the semaphore's __aexit__.
CancelSleep(r) ==
  /\ pc[r] = "sleep"
  /\ result' = [result EXCEPT ![r] = "CancelledError"]
  /\ pc' = [pc EXCEPT ![r] = "exit"]
  /\ UNCHANGED <<users, dbLock, semaphores, semLock, sems, username, text,
                 semaphore, credits, response, log>>

\* ---------------------------------------------------------- Database.reserve
\* A reserve that does not take the ledger's lock.
ReserveUnlocked(r) ==
  /\ pc[r] = "sleep"
  /\ dbLock' = r
  /\ credits' = [credits EXCEPT ![r] = CountCredits(text[r])]
  /\ pc' = [pc EXCEPT ![r] = "reserve_check"]
  /\ UNCHANGED <<users, semaphores, semLock, sems, username, text, semaphore,
                 response, result, log>>

\* await asyncio.sleep(2) is over; credits is computed; reserve awaits the lock.
ReserveLock(r) ==
  /\ pc[r] = "sleep"
  /\ dbLock = 0
  /\ dbLock' = r
  /\ credits' = [credits EXCEPT ![r] = CountCredits(text[r])]
  /\ pc' = [pc EXCEPT ![r] = "reserve_check"]
  /\ UNCHANGED <<users, semaphores, semLock, sems, username, text, semaphore,
                 response, result, log>>

\* user is None
NoSuchUser(name) == name \notin DOMAIN users

\* A reserve that also refuses a call costing exactly what is available.
TooFewCreditsOffByOne(name, amount) ==
  users[name].credits - users[name].reserved <= amount

\* A reserve whose check forgets the credits already reserved.
TooFewCreditsIgnoringReserved(name, amount) ==
  users[name].credits < amount

\* user["credits"] - user["reserved"] < amount
TooFewCredits(name, amount) ==
  users[name].credits - users[name].reserved < amount

\* A reserve that takes the lock with acquire() and gives it back with
\* release() at its end only: a failed check raises with the lock held.
ReserveCheckKeepsLock(r) ==
  /\ pc[r] = "reserve_check"
  /\ IF NoSuchUser(username[r])
     THEN /\ result' = [result EXCEPT ![r] = "UserDoesNotExistException"]
          /\ pc' = [pc EXCEPT ![r] = "exit"]
     ELSE IF users[username[r]].credits - users[username[r]].reserved < credits[r]
     THEN /\ result' = [result EXCEPT ![r] = "CreditsException"]
          /\ pc' = [pc EXCEPT ![r] = "exit"]
     ELSE /\ pc' = [pc EXCEPT ![r] = "reserve_add"]
          /\ result' = result
  /\ UNCHANGED <<users, dbLock, semaphores, semLock, sems, username, text,
                 semaphore, credits, response, log>>

\* The two checks of reserve; a failed check raises, which releases the lock
\* and leaves text_to_speech through the semaphore's __aexit__.
ReserveCheck(r) ==
  /\ pc[r] = "reserve_check"
  /\ IF NoSuchUser(username[r])
     THEN /\ result' = [result EXCEPT ![r] = "UserDoesNotExistException"]
          /\ pc' = [pc EXCEPT ![r] = "exit"]
          /\ dbLock' = 0
     ELSE IF TooFewCredits(username[r], credits[r])
     THEN /\ result' = [result EXCEPT ![r] = "CreditsException"]
          /\ pc' = [pc EXCEPT ![r] = "exit"]
          /\ dbLock' = 0
     ELSE /\ pc' = [pc EXCEPT ![r] = "reserve_add"]
          /\ UNCHANGED <<result, dbLock>>
  /\ UNCHANGED <<users, semaphores, semLock, sems, username, text, semaphore,
                 credits, response, log>>

\* A ledger whose accounts were all built from one shared record: reserving
\* for one user reserves for every user.
AddReservedToAll(name, amount) ==
  [u \in DOMAIN users |-> [users[u] EXCEPT !.reserved = @ + amount]]

\* user["reserved"] += amount
AddReserved(name, amount) ==
  [users EXCEPT ![name].reserved = @ + amount]

\* user["reserved"] += amount; the lock is released and _call_elevenlabs is
\* awaited.
ReserveAdd(r) ==
  /\ pc[r] = "reserve_add"
  /\ users' = AddReserved(username[r], credits[r])
  /\ dbLock' = 0
  /\ log' = [log EXCEPT ![r].reserved = Append(@, credits[r]),
                        ![r].invoked = @ + 1]
  /\ pc' = [pc EXCEPT ![r] = "call"]
  /\ UNCHANGED <<semaphores, semLock, sems, username, text, semaphore,
                 credits, response, result>>

\* ---------------------------------------------------------- _call_elevenlabs
\* if response.status_code != 200
Failed(status) == status # StatusOk

\* The external service answers, with a success or an error status.
CallReturns(r, status) ==
  /\ pc[r] = "call"
  /\ response' = [response EXCEPT ![r] = status]
  /\ pc' = [pc EXCEPT ![r] = IF Failed(status) THEN "unreserve" ELSE "pay"]
  /\ UNCHANGED <<users, dbLock, semaphores, semLock, sems, username, text,
                 semaphore, credits, result, log>>

\* The external call does not return: requests.post raises (connection error,
\* timeout) or the task is cancelled while awaiting it.  The exception leaves
\* text_to_speech through the semaphore's __aexit__.
CallAborts(r) ==
  /\ pc[r] = "call"
  /\ result' = [result EXCEPT ![r] = "Aborted"]
  /\ pc' = [pc EXCEPT ![r] = "exit"]
  /\ UNCHANGED <<users, dbLock, semaphores, semLock, sems, username, text,
                 semaphore, credits, response, log>>

\* -------------------------------------------------------- Database.unreserve
UnreserveLock(r) ==
  /\ pc[r] = "unreserve"
  /\ dbLock = 0
  /\ dbLock' = r
  /\ pc' = [pc EXCEPT ![r] = "unreserve_sub"]
  /\ UNCHANGED <<users, semaphores, semLock, sems, username, text, semaphore,
                 credits, response, result, log>>

\* An unreserve that, like pay, takes the amount off the credits too.
UnreservedAndCharged(name, amount) ==
  [users EXCEPT ![name].reserved = @ - amount, ![name].credits = @ - amount]

\* user["reserved"] -= amount
Unreserved(name, amount) ==
  [users EXCEPT ![name].reserved = @ - amount]

\* An unreserve that takes the lock with acquire() and never gives it back.
UnreserveSubKeepsLock(r) ==
  /\ pc[r] = "unreserve_sub"
  /\ users' = Unreserved(username[r], credits[r])
  /\ log' = [log EXCEPT ![r].unreserved = Append(@, credits[r])]
  /\ result' = [result EXCEPT ![r] = "ElevenLabsException"]
  /\ pc' = [pc EXCEPT ![r] = "exit"]
  /\ UNCHANGED <<dbLock, semaphores, semLock, sems, username, text, semaphore,
                 credits, response>>

\* user["reserved"] -= amount; the lock is released and ElevenLabsException
\* is raised.
UnreserveSub(r) ==
  /\ pc[r] = "unreserve_sub"
  /\ users' = Unreserved(username[r], credits[r])
  /\ dbLock' = 0
  /\ log' = [log EXCEPT ![r].unreserved = Append(@, credits[r])]
  /\ result' = [result EXCEPT ![r] = "ElevenLabsException"]
  /\ pc' = [pc EXCEPT ![r] = "exit"]
  /\ UNCHANGED <<semaphores, semLock, sems, username, text, semaphore,
                 credits, response>>

\* -------------------------------------------------------------- Database.pay
PayLock(r) ==
  /\ pc[r] = "pay"
  /\ dbLock = 0
  /\ dbLock' = r
  /\ pc' = [pc EXCEPT ![r] = "pay_reserved"]
  /\ UNCHANGED <<users, semaphores, semLock, sems, username, text, semaphore,
                 credits, response, result, log>>

\* user["reserved"] -= amount
PaidReserved(name, amount) ==
  [users EXCEPT ![name].reserved = @ - amount]

\* user["reserved"] -= amount
PayReserved(r) ==
  /\ pc[r] = "pay_reserved"
  /\ users' = PaidReserved(username[r], credits[r])
  /\ pc' = [pc EXCEPT ![r] = "pay_credits"]
  /\ UNCHANGED <<dbLock, semaphores, semLock, sems, username, text, semaphore,
                 credits, response, result, log>>

\* A pay with the sign of the charge wrong.
PaidCreditsBack(name, amount) ==
  [users EXCEPT ![name].credits = @ + amount]

\* A pay that frees the reservation and forgets to charge.
PaidNothing(name, amount) == users

\* user["credits"] -= amount
PaidCredits(name, amount) ==
  [users EXCEPT ![name].credits = @ - amount]

\* user["credits"] -= amount; the lock is released and text_to_speech returns
\* (filename, generator).
PayCredits(r) ==
  /\ pc[r] = "pay_credits"
  /\ users' = PaidCredits(username[r], credits[r])
  /\ dbLock' = 0
  /\ log' = [log EXCEPT ![r].paid = Append(@, credits[r])]
  /\ result' = [result EXCEPT ![r] = "ok"]
  /\ pc' = [pc EXCEPT ![r] = "exit"]
  /\ UNCHANGED <<semaphores, semLock, sems, username, text, semaphore,
                 credits, response>>

\* --------------------------------------------------------------------- spec
Next ==
  \/ \E r \in Tasks : GetLock(r)
  \/ \E r \in Tasks : GetLookup(r)
  \/ \E r \in Tasks : GetCreate(r)
  \/ \E r \in Tasks : Acquire(r)
  \/ \E r \in Tasks : ReserveLock(r)
  \/ \E r \in Tasks : ReserveCheck(r)
  \/ \E r \in Tasks : ReserveAdd(r)
  \/ \E r \in Tasks, status \in {StatusOk, StatusError} : CallReturns(r, status)
  \/ \E r \in Tasks : CallAborts(r)
  \/ \E r \in Tasks : UnreserveLock(r)
  \/ \E r \in Tasks : UnreserveSub(r)
  \/ \E r \in Tasks : PayLock(r)
  \/ \E r \in Tasks : PayReserved(r)
  \/ \E r \in Tasks : PayCredits(r)
  \/ \E r \in Tasks : Exit(r)

Spec == Init /\ [][Next]_vars

\* ------------------------------------------------------------- cancellation
\* The same calls, made by callers that may also cancel a call while it
\* sleeps with its permit.
NextCancel ==
  \/ Next
  \/ \E r \in Tasks : CancelSleep(r)

SpecCancel == Init /\ [][NextCancel]_vars

\* ----------------------------------------------- test_semaphore_limit_per_user
\* Six requests of robert with the text "test speech" (two tokens), sent
\* together; _call_elevenlabs is patched by a mock that answers 200.
InitTest ==
  Started([r \in 1..TestRequests |-> "robert"],
          [r \in 1..TestRequests |-> <<"a", " ", "a">>])

NextTest ==
  \/ \E r \in Tasks : GetLock(r)
  \/ \E r \in Tasks : GetLookup(r)
  \/ \E r \in Tasks : GetCreate(r)
  \/ \E r \in Tasks : Acquire(r)
  \/ \E r \in Tasks : ReserveLock(r)
  \/ \E r \in Tasks : ReserveCheck(r)
  \/ \E r \in Tasks : ReserveAdd(r)
  \/ \E r \in Tasks : CallReturns(r, StatusOk)
  \/ \E r \in Tasks : PayLock(r)
  \/ \E r \in Tasks : PayReserved(r)
  \/ \E r \in Tasks : PayCredits(r)
  \/ \E r \in Tasks : Exit(r)

SpecTest == InitTest /\ [][NextTest]_vars

\* ------------------------------------------------------------------- a burst
\* One more concurrent call of a single user than the semaphore has permits,
\* with any of the texts: the smallest load under which a call has to queue.
BurstRequests == Capacity + 1

BurstTexts ==
  {w \in [1..BurstRequests -> {<<"a">>, <<"a", " ", "a">>}] :
     \A i \in 1..(BurstRequests - 1) : Len(w[i]) <= Len(w[i + 1])}

InitBurst ==
  \E u \in {"karel", "robert", "mallory"}, w \in BurstTexts :
    Started([r \in 1..BurstRequests |-> u], w)

SpecBurst == InitBurst /\ [][NextCancel]_vars

\* ---------------------------------------------------------------- scheduling
\* Everything task r can do: the steps of its text_to_speech call, the
\* return of its external call included.
Step(r) ==
  \/ GetLock(r) \/ GetLookup(r) \/ GetCreate(r) \/ Acquire(r)
  \/ ReserveLock(r) \/ ReserveCheck(r) \/ ReserveAdd(r)
  \/ \E status \in {StatusOk, StatusError} : CallReturns(r, status)
  \/ CallAborts(r)
  \/ UnreserveLock(r) \/ UnreserveSub(r)
  \/ PayLock(r) \/ PayReserved(r) \/ PayCredits(r)
  \/ Exit(r)

\* One more concurrent call of a single user than the semaphore has permits,
\* all with a text of one token: karel can pay for one of them, robert for
\* all, mallory is unknown.
InitLive ==
  \E u \in {"karel", "robert", "mallory"} :
    Started([r \in 1..BurstRequests |-> u], [r \in 1..BurstRequests |-> <<"a">>])

\* The asyncio event loop runs every task that is ready (its lock free, its
\* permit granted, its sleep over), and every external call comes back, with
\* a response or an exception.
Fairness == \A r \in 1..BurstRequests : WF_vars(Step(r))

SpecLive == InitLive /\ [][Next]_vars /\ Fairness

\* ------------------------------------------------- the unpatched external call
\* _call_elevenlabs has no await in it: requests.post is a synchronous call,
\* made on the event loop's thread.  While a task is inside it the event loop
\* runs nothing else: no other task takes a step until the call has returned
\* or raised.
Blocked(r) == \E q \in Tasks \ {r} : pc[q] = "call"

\* A step of task r, taken when the event loop's thread is free to run it.
Run(r) == ~Blocked(r) /\ Step(r)

NextBlocking == \E r \in Tasks : Run(r)

SpecBlocking == Init /\ [][NextBlocking]_vars

\* ------------------------------------------------------------- authenticate
\* The passwords callers present: those of the seeded accounts called, and
\* one that is nobody's.
Passwords == {"karlovHeslo", "robertHeslo", "wrong"}

\* Database.get_password: async with self.lock
AuthLock(r) ==
  /\ pc[r] = "auth"
  /\ dbLock = 0
  /\ dbLock' = r
  /\ pc' = [pc EXCEPT ![r] = "auth_lookup"]
  /\ UNCHANGED <<users, semaphores, semLock, sems, username, text, semaphore,
                 credits, response, result, log>>

\* return stored_password == password
Authenticated(name, password) == users[name].password = password

\* Database.get_password looks the user up and raises or returns the stored
\* password, releasing the lock; App.authenticate compares it with the
\* password presented, and only an authenticated request goes on to
\* text_to_speech (main.py answers the others with 401).
AuthCheck(r, password) ==
  /\ pc[r] = "auth_lookup"
  /\ dbLock' = 0
  /\ IF NoSuchUser(username[r])
     THEN /\ result' = [result EXCEPT ![r] = "UserDoesNotExistException"]
          /\ pc' = [pc EXCEPT ![r] = "done"]
     ELSE IF Authenticated(username[r], password)
     THEN /\ pc' = [pc EXCEPT ![r] = "get"]
          /\ result' = result
     ELSE /\ result' = [result EXCEPT ![r] = "Unauthorized"]
          /\ pc' = [pc EXCEPT ![r] = "done"]
  /\ UNCHANGED <<users, semaphores, semLock, sems, username, text, semaphore,
                 credits, response, log>>

\* The requests of main.py: authenticate, then text_to_speech.
NextAuth ==
  \/ Next
  \/ \E r \in Tasks : AuthLock(r)
  \/ \E r \in Tasks, password \in Passwords : AuthCheck(r, password)

\* One more concurrent request of a single user than the semaphore has
\* permits, each with a text of one token and any of the passwords; none has
\* run yet.
InitAuth ==
  \E u \in {"karel", "robert", "mallory"} :
    /\ users = SeedUsers
    /\ dbLock = 0
    /\ semaphores = << >>
    /\ semLock = 0
    /\ sems = << >>
    /\ pc = [r \in 1..BurstRequests |-> "auth"]
    /\ username = [r \in 1..BurstRequests |-> u]
    /\ text = [r \in 1..BurstRequests |-> <<"a">>]
    /\ semaphore = [r \in 1..BurstRequests |-> << >>]
    /\ credits = [r \in 1..BurstRequests |-> 0]
    /\ response = [r \in 1..BurstRequests |-> 0]
    /\ result = [r \in 1..BurstRequests |-> ""]
    /\ log = [r \in 1..BurstRequests |-> NoLog]

SpecAuth == InitAuth /\ [][NextAuth]_vars

\* Any MaxCalls concurrent calls of the known and unknown users, each either a
\* request that authenticates first or a direct call of text_to_speech.
InitCalls ==
  \E w \in Workloads(MaxCalls), entry \in [1..MaxCalls -> {"auth", "get"}] :
    /\ users = SeedUsers
    /\ dbLock = 0
    /\ semaphores = << >>
    /\ semLock = 0
    /\ sems = << >>
    /\ pc = entry
    /\ username = [r \in 1..MaxCalls |-> CallKinds[w[r]][1]]
    /\ text = [r \in 1..MaxCalls |-> CallKinds[w[r]][2]]
    /\ semaphore = [r \in 1..MaxCalls |-> << >>]
    /\ credits = [r \in 1..MaxCalls |-> 0]
    /\ response = [r \in 1..MaxCalls |-> 0]
    /\ result = [r \in 1..MaxCalls |-> ""]
    /\ log = [r \in 1..MaxCalls |-> NoLog]

SpecCalls == InitCalls /\ [][NextAuth]_vars

\* ------------------------------------------------------------ cost of a text
\* The characters of the texts costed: a word character, whitespace, and a
\* character that is neither (punctuation).
Alphabet == {"a", " ", "!"}

\* Every text of at most MaxTextLen characters.
Texts == UNION {[1..n -> Alphabet] : n \in 0..MaxTextLen}

\* One call of oliver (20000 credits, so that reserve never refuses) with any
\* of the texts; the external call may succeed, fail or not return.
InitCost == \E t \in Texts : Started(<<"oliver">>, <<t>>)

SpecCost == InitCost /\ [][Next]_vars

\* =============================================================== properties
\* Sum of a sequence of amounts.
RECURSIVE SumSeq(_)
SumSeq(q) == IF q = << >> THEN 0 ELSE Head(q) + SumSeq(Tail(q))

\* The credits task r has reserved and neither paid nor unreserved.
Held(r) == SumSeq(log[r].reserved) - SumSeq(log[r].unreserved) - SumSeq(log[r].paid)

\* The tasks called for user name.
TasksOf(name) == {r \in Tasks : username[r] = name}

\* C1: in every reachable state every account has 0 <= reserved <= credits.
C1_ReservedWithinCredits ==
  \A u \in DOMAIN users :
    /\ 0 <= users[u].reserved
    /\ users[u].reserved <= users[u].credits

\* C1 witness: an account's whole balance is reserved by one call while
\* another call of the same user has been refused for lack of credits.
C1_Witness ==
  \E r, q \in Tasks :
    /\ r # q
    /\ username[r] = "karel" /\ username[q] = "karel"
    /\ pc[r] = "call"
    /\ result[q] = "CreditsException"
    /\ users["karel"].reserved = users["karel"].credits
    /\ users["karel"].reserved > 0

\* The tasks of user name that have taken a permit and not given it back.
InFlight(name) == {r \in TasksOf(name) : log[r].acquired > log[r].released}

\* The tasks of user name that have taken a permit at some time.
EverAcquired(name) == {r \in TasksOf(name) : log[r].acquired > 0}

\* The tasks of user name that have given their permit back.
EverReleased(name) == {r \in TasksOf(name) : log[r].released > 0}

\* Where a task stands once it has gone on to reserve or further.
PastSleep ==
  {"reserve_check", "reserve_add", "call", "unreserve", "unreserve_sub",
   "pay", "pay_reserved", "pay_credits", "exit", "done"}

\* C2: at most 3 calls of one user are ever between permit acquired and
\* permit released; a call reaches its reserve or its external call only
\* with a permit, and once more than 3 calls of the user have got a permit
\* (the 4th to 6th of the six sent together), one of the earlier ones has
\* released its permit: as many as the number beyond 3.
C2_AtMostThreeInFlight ==
  \A name \in {username[r] : r \in Tasks} :
    /\ Cardinality(InFlight(name)) <= 3
    /\ \A r \in TasksOf(name) :
         (pc[r] \in PastSleep \/ log[r].invoked > 0) => log[r].acquired = 1
    /\ Cardinality(EverAcquired(name)) > 3 =>
         Cardinality(EverReleased(name)) >= Cardinality(EverAcquired(name)) - 3

\* C2 witness: all six requests are in, three are in their external call and
\* the other three are queued for a permit.
C2_Witness ==
  /\ Cardinality(Tasks) = 6
  /\ Cardinality({r \in Tasks : pc[r] = "call"}) = 3
  /\ Cardinality({r \in Tasks : pc[r] = "waiting"}) = 3
  /\ \A r \in Tasks : username[r] = "robert"

\* C3: every call whose reserve succeeded has, when it is over, called exactly
\* one of pay and unreserve, once, with the amount it reserved; and no call
\* ever calls both.
C3_SettledXorRolledBack ==
  \A r \in Tasks :
    /\ Len(log[r].paid) + Len(log[r].unreserved) <= 1
    /\ (pc[r] = "done" /\ log[r].reserved # << >>) =>
         log[r].paid \o log[r].unreserved = log[r].reserved

\* Where a task stands while it holds a permit.
Holding == {"sleep"} \cup (PastSleep \ {"done"})

\* The tasks holding a permit of semaphore s.
Holders(s) == {r \in Tasks : semaphore[r] = s /\ pc[r] \in Holding}

\* C4: a call takes at most one permit and gives back exactly the one it took,
\* when it ends, however it ends; so every semaphore's free permits and its
\* holders add up to 3, the counter stays within 0..3, and it is 3 whenever
\* no call of its user is in flight.
C4_PermitReleasedOnce ==
  /\ \A r \in Tasks :
       /\ log[r].acquired <= 1
       /\ log[r].released = (IF pc[r] = "done" THEN log[r].acquired ELSE 0)
       /\ pc[r] = "done" => log[r].released = 1
  /\ \A s \in DOMAIN sems :
       /\ sems[s].value \in 0..3
       /\ sems[s].value + Cardinality(Holders(s)) = 3
       /\ InFlight(s[1]) = {} => sems[s].value = 3

\* C4 witness: a burst of calls of one user is over; one call succeeded, one
\* met an external failure, one was refused by reserve, and all permits are
\* back.
C4_Witness ==
  /\ Cardinality(Tasks) > 3
  /\ \A r \in Tasks : pc[r] = "done" /\ log[r].released = 1
  /\ \E r \in Tasks : result[r] = "ok"
  /\ \E r \in Tasks : result[r] = "ElevenLabsException"
  /\ \E r \in Tasks : result[r] = "CreditsException"
  /\ \A s \in DOMAIN sems : sems[s].value = 3

\* A call that reserve has refused.
Refused(r) == result[r] \in {"CreditsException", "UserDoesNotExistException"}

\* C5 (states): a refused call has reserved nothing and has not started the
\* external call, it is on its way out, and when it is over its permit is
\* back.
C5_RefusedState ==
  \A r \in Tasks :
    Refused(r) =>
      /\ log[r].reserved = << >>
      /\ log[r].invoked = 0
      /\ pc[r] \in {"exit", "done"}
      /\ pc[r] = "done" => log[r].released = 1

\* C5 (steps): reserve is refused exactly when the user is unknown or
\* credits - reserved < cost; the refusal changes no account and raises the
\* matching exception, which stays the call's outcome.
C5_RefusedStep ==
  \A r \in Tasks :
    /\ (pc[r] = "reserve_check" /\ pc'[r] # "reserve_check") =>
         LET u == username[r]
             unknown == u \notin DOMAIN users
             short == ~unknown /\
                      users[u].credits - users[u].reserved < CountCredits(text[r])
         IN  /\ unknown => result'[r] = "UserDoesNotExistException"
             /\ short => result'[r] = "CreditsException"
             /\ (unknown \/ short) => (users' = users /\ pc'[r] = "exit")
             /\ ~(unknown \/ short) => (result'[r] = "" /\ pc'[r] = "reserve_add")
    /\ Refused(r) => result'[r] = result[r]

\* C5: if reserve fails (unknown user, or credits - reserved < cost) the
\* failure reaches the caller, the external call is never made for that call,
\* the permit is released, and no account's credits or reserved change.
C5_ReserveFailure == []C5_RefusedState /\ [][C5_RefusedStep]_vars

\* C5 witness: karel, with 1 credit and nothing reserved, asked for a text of
\* 2 tokens and was refused; a call of an unknown user was refused too; both
\* are over and the accounts are as seeded.
C5_Witness ==
  \E r, q \in Tasks :
    /\ username[r] = "karel" /\ CountCredits(text[r]) = 2
    /\ result[r] = "CreditsException" /\ pc[r] = "done"
    /\ result[q] = "UserDoesNotExistException" /\ pc[q] = "done"
    /\ users = SeedUsers

\* The calls of r's user other than r have reserved nothing (so far).
Alone(r) == \A q \in TasksOf(username[r]) \ {r} : log[q].reserved = << >>

\* C6 (states): a call whose external call answered with an error status goes
\* to unreserve and nowhere else; once ElevenLabsException is raised the call
\* has unreserved exactly what it reserved, its cost, and paid nothing; if
\* it was alone, the account is as seeded (robert: 69 credits, 0 reserved).
C6_FailedState ==
  \A r \in Tasks :
    /\ (response[r] # 0 /\ response[r] # 200) =>
         /\ pc[r] \in {"unreserve", "unreserve_sub", "exit"}
         /\ pc[r] = "exit" => result[r] = "ElevenLabsException"
         /\ pc[r] # "exit" => Held(r) = CountCredits(text[r])
    /\ result[r] = "ElevenLabsException" =>
         /\ log[r].reserved = << CountCredits(text[r]) >>
         /\ log[r].unreserved = log[r].reserved
         /\ log[r].paid = << >>
         /\ Alone(r) =>
              /\ users[username[r]].credits = SeedUsers[username[r]].credits
              /\ users[username[r]].reserved = 0
         /\ (Alone(r) /\ username[r] = "robert") =>
              (users["robert"].credits = 69 /\ users["robert"].reserved = 0)

\* C6 (steps): ElevenLabsException is raised only by the step that completes
\* unreserve, and that step takes exactly the cost off the user's reserved
\* and changes nothing else in the ledger.
C6_FailedStep ==
  \A r \in Tasks :
    /\ (result[r] = "" /\ result'[r] = "ElevenLabsException") =>
         pc[r] = "unreserve_sub"
    /\ (pc[r] = "unreserve_sub" /\ pc'[r] # "unreserve_sub") =>
         /\ result'[r] = "ElevenLabsException"
         /\ users' = [users EXCEPT ![username[r]].reserved =
                                      @ - CountCredits(text[r])]

\* C6: when the external call fails, the reservation is rolled back before
\* ElevenLabsException is raised: reserved goes down by exactly the cost,
\* credits do not change; alone, robert's 69/0 is 69/0 again.
C6_FailureRollsBack == []C6_FailedState /\ [][C6_FailedStep]_vars

\* C6 witness: robert's 2-token call, alone, ended with ElevenLabsException
\* and the account is 69/0.
C6_Witness ==
  \E r \in Tasks :
    /\ username[r] = "robert" /\ CountCredits(text[r]) = 2
    /\ result[r] = "ElevenLabsException" /\ pc[r] = "done"
    /\ Alone(r)
    /\ users["robert"].credits = 69 /\ users["robert"].reserved = 0

\* C7 (states): a call whose external call answered 200 goes to pay and
\* nowhere else; once it has returned it has paid exactly what it reserved,
\* its cost, and unreserved nothing; if it was alone, the account has the
\* seeded credits less the cost and nothing reserved (robert, 2 tokens:
\* 67 and 0).
C7_PaidState ==
  \A r \in Tasks :
    /\ response[r] = 200 =>
         /\ pc[r] \in {"pay", "pay_reserved", "pay_credits", "exit"}
         /\ pc[r] = "exit" => result[r] = "ok"
    /\ result[r] = "ok" =>
         /\ log[r].reserved = << CountCredits(text[r]) >>
         /\ log[r].paid = log[r].reserved
         /\ log[r].unreserved = << >>
         /\ Alone(r) =>
              /\ users[username[r]].credits =
                   SeedUsers[username[r]].credits - CountCredits(text[r])
              /\ users[username[r]].reserved = 0
         /\ (Alone(r) /\ username[r] = "robert" /\ CountCredits(text[r]) = 2) =>
              (users["robert"].credits = 67 /\ users["robert"].reserved = 0)

\* C7 (steps): pay's first assignment takes exactly the cost off reserved,
\* its second takes exactly the cost off credits, and the call returns only
\* after the second.
C7_PaidStep ==
  \A r \in Tasks :
    /\ (result[r] = "" /\ result'[r] = "ok") => pc[r] = "pay_credits"
    /\ (pc[r] = "pay_reserved" /\ pc'[r] # "pay_reserved") =>
         users' = [users EXCEPT ![username[r]].reserved =
                                   @ - CountCredits(text[r])]
    /\ (pc[r] = "pay_credits" /\ pc'[r] # "pay_credits") =>
         /\ result'[r] = "ok"
         /\ users' = [users EXCEPT ![username[r]].credits =
                                      @ - CountCredits(text[r])]

\* C7: when the external call succeeds, pay charges exactly the cost: credits
\* and reserved both go down by exactly the cost (robert: 69 -> 67, reserved
\* back to 0) and the call returns to its caller.
C7_SuccessCharges == []C7_PaidState /\ [][C7_PaidStep]_vars

\* C7 witness: robert's 2-token call, alone, has returned and the account is
\* 67/0.
C7_Witness ==
  \E r \in Tasks :
    /\ username[r] = "robert" /\ CountCredits(text[r]) = 2
    /\ result[r] = "ok" /\ pc[r] = "done"
    /\ Alone(r)
    /\ users["robert"].credits = 67 /\ users["robert"].reserved = 0

\* C8: no call has given its permit back while it still holds a reservation
\* (the permit is released only after pay or unreserve has completed).
C8_ReleaseAfterSettlement ==
  \A r \in Tasks : log[r].released > 0 => Held(r) = 0

\* Where a task stands while it is inside Semaphores.get.
InGet == {"get", "get_lookup", "get_create"}

\* C9: at most one semaphore is ever created per user, and every get(name)
\* that has returned, returned the one the registry records for name.
C9_OneSemaphorePerUser ==
  /\ \A name \in {username[r] : r \in Tasks} : Cardinality(Created(name)) <= 1
  /\ \A name \in DOMAIN semaphores : semaphores[name] \in Created(name)
  /\ \A r \in Tasks :
       (pc[r] \notin InGet /\ pc[r] # "done") =>
         /\ username[r] \in DOMAIN semaphores
         /\ semaphore[r] = semaphores[username[r]]

\* C9 witness: two calls of the same user, started together when no semaphore
\* existed, have both come back from get with the same semaphore, and a
\* third call is still inside get.
C9_Witness ==
  \E r, q, p \in Tasks :
    /\ r # q /\ username[r] = username[q]
    /\ pc[r] \in Holding /\ pc[q] \in Holding
    /\ semaphore[r] = semaphore[q] /\ semaphore[r] # << >>
    /\ Cardinality(Created(username[r])) = 1
    /\ pc[p] \in {"get_lookup", "get_create"}

\* C10: a call cancelled while it holds a permit, before reserve, still gives
\* the permit back; a call cancelled or aborted after reserve succeeded and
\* before settlement is rolled back before its permit is given back.
C10_CancelRollsBack ==
  \A r \in Tasks :
    result[r] \in {"CancelledError", "Aborted"} =>
      /\ pc[r] = "done" => log[r].released = 1
      /\ log[r].released > 0 => Held(r) = 0

\* ------------------------------------------------------------------- C11
\* The offsets (1-based) at which a maximal whitespace-delimited token of t
\* starts: a non-space character at the start of t or after a space.
TokenStarts(t) ==
  {i \in 1..Len(t) : ~IsSpace(t[i]) /\ (i = 1 \/ IsSpace(t[i - 1]))}

\* The token that starts at offset i contains a word character.
HasWord(t, i) ==
  \E j \in i..Len(t) : IsWord(t[j]) /\ \A k \in i..j : ~IsSpace(t[k])

\* The number of maximal whitespace-delimited non-empty tokens of t.
WhitespaceTokens(t) == Cardinality(TokenStarts(t))

\* The number of those tokens that contain at least one word character.
WordTokens(t) == Cardinality({i \in TokenStarts(t) : HasWord(t, i)})

\* Where a task stands while its local "credits" holds the computed cost.
Costed ==
  {"reserve_check", "reserve_add", "call", "unreserve", "unreserve_sub",
   "pay", "pay_reserved", "pay_credits", "exit"}

\* C11 (as claimed): for every text, the cost computed and reserved is the
\* number of maximal whitespace-delimited non-empty tokens of the text.
C11_CostIsWhitespaceTokens ==
  \A r \in Tasks :
    pc[r] \in Costed => credits[r] = WhitespaceTokens(text[r])

\* C11 (amended): for every text, the cost computed and reserved is the
\* number of maximal whitespace-delimited tokens that contain at least one
\* word character; it is a function of the text alone, it is 0 for an empty
\* or whitespace-only text, and it is 3 for "a b  c".
C11_CostIsWordTokens ==
  \A r \in Tasks :
    /\ pc[r] \in Costed =>
         /\ credits[r] = WordTokens(text[r])
         /\ (\A i \in 1..Len(text[r]) : IsSpace(text[r][i])) => credits[r] = 0
         /\ text[r] = <<"a", " ", "a", " ", " ", "a">> => credits[r] = 3
    /\ log[r].reserved # << >> => log[r].reserved = << WordTokens(text[r]) >>

\* C11 witness: the text "a !! a" (three whitespace-delimited tokens, one of
\* them punctuation only) has been costed 2 and reserved.
C11_Witness ==
  \E r \in Tasks :
    /\ text[r] = <<"a", " ", "!", "!", " ", "a">>
    /\ pc[r] = "call"
    /\ credits[r] = 2
    /\ users[username[r]].reserved = 2

\* ------------------------------------------------------------------- C12
\* How a call can end: Done, Failed (by the external service) or Rejected
\* (by reserve).
Outcomes ==
  {"ok", "ElevenLabsException", "Aborted",
   "CreditsException", "UserDoesNotExistException"}

\* C12: provided every external call comes back, every call queued for a
\* permit eventually gets one, and every call eventually terminates, with one
\* of the outcomes Done, Failed or Rejected; calls of a user with enough
\* credits whose external call answered 200 end successfully.
C12_EventualProgress ==
  /\ \A r \in 1..BurstRequests : (pc[r] = "waiting") ~> (log[r].acquired = 1)
  /\ <>[](\A r \in Tasks : pc[r] = "done" /\ result[r] \in Outcomes)
  /\ [](\A r \in Tasks :
          response[r] = StatusOk =>
            \/ pc[r] \in {"pay", "pay_reserved", "pay_credits"}
            \/ pc[r] = "exit" /\ result[r] = "ok")

\* C12 witness: four calls were sent together on three permits; all four got
\* a permit and are over, one Done, one Failed, and every permit is back.
C12_Witness ==
  /\ Cardinality(Tasks) = BurstRequests
  /\ \A r \in Tasks : pc[r] = "done" /\ log[r].acquired = 1
  /\ \E r \in Tasks : result[r] = "ok"
  /\ \E r \in Tasks : result[r] = "ElevenLabsException"
  /\ \A s \in DOMAIN sems : sems[s].value = Capacity /\ sems[s].waiters = << >>

\* ------------------------------------------------------------------- C13
\* Where a task stands while it is suspended waiting for a permit or is
\* inside its external call.
Suspended == {"waiting", "call"}

\* C13: whenever the calls of the other users are suspended waiting for a
\* permit or inside their external call (or over), an unfinished call of
\* user B that is alone for B can take its next step: it never waits for a
\* call of another user to finish.
C13_OtherUserNotBlocked ==
  \A b \in Tasks :
    ( /\ pc[b] # "done"
      /\ \A a \in Tasks \ {b} :
           username[a] # username[b] /\ pc[a] \in Suspended \cup {"done"}
      /\ \E a \in Tasks \ {b} : pc[a] \in Suspended )
    => ENABLED Run(b)

\* ------------------------------------------------------------------- C14
\* Where a task stands while it is inside the lock-protected body of one of
\* the ledger's operations: get_password, reserve, unreserve, pay.
InLedgerOp ==
  {"auth_lookup", "reserve_check", "reserve_add", "unreserve_sub",
   "pay_reserved", "pay_credits"}

\* C14: the ledger's lock is held only by a request that is inside the body
\* of one ledger operation (get_password, reserve, unreserve or pay), and a
\* request inside such a body holds it; so no request holds it while it is
\* queued for a permit, asleep with its permit, or in its external call.
C14_LockOnlyInLedgerOp ==
  /\ dbLock # 0 => (dbLock \in Tasks /\ pc[dbLock] \in InLedgerOp)
  /\ \A r \in Tasks :
       /\ pc[r] \in InLedgerOp => dbLock = r
       /\ pc[r] \in {"waiting", "call", "sleep", "acquire"} => dbLock # r

\* C14 witness: one request is queued for a permit and two are in their
\* external call while a fourth, between pay's two assignments, holds the
\* ledger's lock.
C14_Witness ==
  \E r, q \in Tasks :
    /\ pc[r] = "waiting"
    /\ pc[q] = "pay_credits" /\ dbLock = q
    /\ Cardinality({p \in Tasks : pc[p] = "call"}) = 2

\* ------------------------------------------------------------------- C15
\* The tasks inside the body of a ledger operation.
InsideLedger == {r \in Tasks : pc[r] \in InLedgerOp}

\* C15 (states): at most one request is inside a ledger operation, so none is
\* inside one while another is between reserve's check and its increment or
\* between pay's two assignments; and when reserve comes to its increment,
\* what it checked still holds (credits - reserved >= amount).
C15_AtomicState ==
  /\ Cardinality(InsideLedger) <= 1
  /\ \A r \in Tasks :
       /\ pc[r] \in {"reserve_add", "pay_credits"} => InsideLedger = {r}
       /\ pc[r] = "reserve_add" =>
            users[username[r]].credits - users[username[r]].reserved >= credits[r]

\* C15 (steps): while a request is inside a ledger operation, no step of
\* another request changes or enters the ledger.
C15_AtomicStep ==
  \A r \in Tasks :
    (pc[r] \in InLedgerOp /\ pc'[r] = pc[r]) =>
      /\ users' = users
      /\ \A q \in Tasks \ {r} : pc'[q] \in InLedgerOp => pc[q] \in InLedgerOp

\* C15: the ledger's operations are atomic with respect to each other:
\* nothing happens to the ledger between reserve's check and its increment,
\* and no operation runs between pay's two assignments.
C15_LedgerOpsAtomic == []C15_AtomicState /\ [][C15_AtomicStep]_vars

\* C15 witness: a call of robert is between pay's two assignments (its
\* reservation is gone, its credits are not yet charged) while another call
\* of robert, its sleep over, is about to reserve.
C15_Witness ==
  \E r, q \in Tasks :
    /\ r # q /\ username[r] = "robert" /\ username[q] = "robert"
    /\ pc[r] = "pay_credits" /\ pc[q] = "sleep"
    /\ users["robert"].reserved = 0
    /\ users["robert"].credits = SeedUsers["robert"].credits

\* ------------------------------------------------------------------- C16
\* C16 (states): the accounts are those seeded, with the passwords seeded,
\* and an account nobody has called for is exactly as seeded.
C16_FrameState ==
  /\ DOMAIN users = DOMAIN SeedUsers
  /\ \A u \in DOMAIN users :
       /\ users[u].password = SeedUsers[u].password
       /\ TasksOf(u) = {} => users[u] = SeedUsers[u]

\* C16 (steps): a step changes an account only if it is a step of a ledger
\* operation of a call made for that account's user; it changes neither its
\* password nor the set of accounts.
C16_FrameStep ==
  /\ DOMAIN users' = DOMAIN users
  /\ \A u \in DOMAIN users :
       /\ users'[u].password = users[u].password
       /\ users'[u] # users[u] =>
            \E r \in TasksOf(u) : pc[r] \in InLedgerOp /\ pc'[r] # pc[r]

\* C16: no authenticate or text_to_speech call adds or removes an account or
\* changes a password, and a call made for user p, known or not, changes the
\* credits and reserved of no user other than p.
C16_OnlyOwnAccount == []C16_FrameState /\ [][C16_FrameStep]_vars

\* C16 witness: a call of text_to_speech for an unknown user was refused and
\* an authenticated request of robert was charged; both are over, robert has
\* paid and every other account is as seeded.
C16_Witness ==
  \E r, q \in Tasks :
    /\ username[r] \notin DOMAIN users
    /\ result[r] = "UserDoesNotExistException" /\ log[r].acquired = 1
    /\ username[q] = "robert" /\ result[q] = "ok"
    /\ pc[r] = "done" /\ pc[q] = "done"
    /\ users["robert"].credits < SeedUsers["robert"].credits
    /\ \A u \in DOMAIN users \ {"robert"} : users[u] = SeedUsers[u]

\* ------------------------------------------------------------------- C17
\* What call r has reserved and not yet settled or rolled back; a call is
\* settled from pay's first assignment on.
Unsettled(r) == IF pc[r] = "pay_credits" THEN 0 ELSE Held(r)

\* The sum of Unsettled over the calls in S.
RECURSIVE SumUnsettled(_)
SumUnsettled(S) ==
  IF S = {} THEN 0
  ELSE LET r == CHOOSE x \in S : TRUE IN Unsettled(r) + SumUnsettled(S \ {r})

\* C17 (first half): every account's reserved is the sum of what the calls
\* made for its user have reserved and not yet settled or rolled back.
C17_ReservedIsSumOfUnsettled ==
  \A u \in DOMAIN users : users[u].reserved = SumUnsettled(TasksOf(u))

\* C17: every account's reserved is the sum of the costs of its user's calls
\* that have reserved and not yet settled or rolled back, and so it is 0
\* whenever no call of that user is in flight.
C17_ReservedZeroWhenIdle ==
  /\ C17_ReservedIsSumOfUnsettled
  /\ \A u \in DOMAIN users :
       (\A r \in TasksOf(u) : pc[r] = "done") => users[u].reserved = 0

\* ------------------------------------------------------------------- C18
\* The sum of what the calls in S have paid.
RECURSIVE SumPaid(_)
SumPaid(S) ==
  IF S = {} THEN 0
  ELSE LET r == CHOOSE x \in S : TRUE IN SumSeq(log[r].paid) + SumPaid(S \ {r})

\* C18 (states): every account's credits are the seeded credits less what the
\* calls made for its user have paid; a call pays at most once, exactly its
\* cost, and only a call that ends successfully has paid; what a user's calls
\* have paid never exceeds the seeded credits.
C18_ChargedState ==
  /\ \A u \in DOMAIN users :
       /\ users[u].credits = SeedUsers[u].credits - SumPaid(TasksOf(u))
       /\ SumPaid(TasksOf(u)) <= SeedUsers[u].credits
  /\ \A r \in Tasks :
       /\ Len(log[r].paid) <= 1
       /\ log[r].paid # << >> <=> result[r] = "ok"
       /\ result[r] = "ok" => log[r].paid = << CountCredits(text[r]) >>

\* C18 (steps): no step raises any account's credits.
C18_ChargedStep ==
  \A u \in DOMAIN users : users'[u].credits <= users[u].credits

\* C18: a user's credits never increase and are always the seeded credits
\* less the costs of the user's calls that succeeded and were settled; each
\* such call is charged exactly once, and the total never exceeds the seeded
\* credits.
C18_BalanceIsSeedLessPaid == []C18_ChargedState /\ [][C18_ChargedStep]_vars

\* C18 witness: karel, seeded with 1 credit, made three calls of one token;
\* one met an external failure and was not charged, one succeeded and was
\* charged the whole balance, one was refused; karel has 0 credits.
C18_Witness ==
  \E r, q, p \in Tasks :
    /\ username[r] = "karel" /\ username[q] = "karel" /\ username[p] = "karel"
    /\ result[r] = "ElevenLabsException" /\ pc[r] = "done"
    /\ result[q] = "ok" /\ pc[q] = "done"
    /\ result[p] = "CreditsException" /\ pc[p] = "done"
    /\ users["karel"].credits = 0 /\ users["karel"].reserved = 0

\* ------------------------------------------------------------------- C19
\* C19: in every reachable state where some request is unfinished, some
\* request (or pending external call) can take a step; and a request that
\* holds the registry's lock or the ledger's lock can always take its next
\* step, so no request holding a lock waits for another.
C19_DeadlockFree ==
  /\ (\E r \in Tasks : pc[r] # "done") => ENABLED NextAuth
  /\ \A r \in Tasks :
       (dbLock = r \/ semLock = r) =>
         ENABLED (Step(r) \/ \E password \in Passwords : AuthCheck(r, password))

\* C19 witness: of four requests of one user, one is queued for a permit,
\* two wait for the ledger's lock (one to reserve, one to pay) and the fourth
\* holds it between pay's two assignments: only the lock's holder can step.
C19_Witness ==
  \E r, q, p, h \in Tasks :
    /\ pc[r] = "waiting"
    /\ pc[q] = "sleep"
    /\ pc[p] = "pay"
    /\ pc[h] = "pay_credits" /\ dbLock = h
    /\ \A x \in Tasks \ {h} : ~ENABLED Step(x)

====
